---------------------------- MODULE Spec2Model ----------------------------
(***************************************************************************)
(* Model of src/main.py: the Cloud Function procesar_facturas, which       *)
(* downloads an invoice PDF, has Document AI extract its entities, turns   *)
(* the SAMS / CITY line items into rows for the ENTRADAS sheet and         *)
(* archives the PDF in PROCESSED_BUCKET.                                   *)
(*                                                                         *)
(* Texts are sequences of one-character strings.  A decimal.Decimal is a   *)
(* record [neg, dig, exp]: sign, coefficient digits (most significant      *)
(* first, no leading zeros) and exponent, as in Decimal.as_tuple(); the    *)
(* arithmetic works on the digits, so the 28-digit context precision of    *)
(* main.py line 20 is kept.                                                *)
(***************************************************************************)
EXTENDS Integers, Sequences, FiniteSets, TLC

(***************************************************************************)
(* decimal.Decimal                                                         *)
(***************************************************************************)

\* getcontext().prec = 28
Prec == 28

Zeros(k) == [i \in 1..k |-> 0]

\* Coefficients are worked on several digits at a time (a limb), which keeps the
\* evaluation shallow; every intermediate integer stays below 2^31.

RECURSIVE DigitsOf(_)
\* The decimal digits of a natural number.
DigitsOf(n) == IF n < 10 THEN <<n>> ELSE Append(DigitsOf(n \div 10), n % 10)

RECURSIVE IntOf(_)
\* The natural number with digits ds (at most nine of them).
IntOf(ds) == IF ds = <<>> THEN 0 ELSE 10 * IntOf(SubSeq(ds, 1, Len(ds) - 1)) + ds[Len(ds)]

\* The digits of n, with zeros in front up to k digits.
Padded(n, k) == LET ds == DigitsOf(n) IN Zeros(k - Len(ds)) \o ds

\* The last k digits of ds (all of ds if it is shorter), and what is before them.
LastDigits(ds, k) == IF Len(ds) <= k THEN ds ELSE SubSeq(ds, Len(ds) - k + 1, Len(ds))
FrontDigits(ds, k) == IF Len(ds) <= k THEN <<>> ELSE SubSeq(ds, 1, Len(ds) - k)

\* A coefficient without its leading zeros; zero is <<0>>.
StripZeros(ds) ==
    LET nz == {i \in 1..Len(ds) : ds[i] # 0}
    IN  IF nz = {} THEN <<0>>
        ELSE SubSeq(ds, CHOOSE i \in nz : \A j \in nz : i <= j, Len(ds))

\* Coefficient ds plus one.
Increment(ds) ==
    LET not9 == {i \in 1..Len(ds) : ds[i] # 9}
        at == CHOOSE i \in not9 : \A j \in not9 : i >= j
    IN  IF not9 = {} THEN <<1>> \o Zeros(Len(ds))
        ELSE [j \in 1..Len(ds) |-> IF j < at THEN ds[j] ELSE IF j = at THEN ds[j] + 1 ELSE 0]

\* Coefficient ds minus one (ds is not zero); leading zeros may remain.
Decrement(ds) ==
    LET not0 == {i \in 1..Len(ds) : ds[i] # 0}
        at == CHOOSE i \in not0 : \A j \in not0 : i >= j
    IN  [j \in 1..Len(ds) |-> IF j < at THEN ds[j] ELSE IF j = at THEN ds[j] - 1 ELSE 9]

\* Coefficient ds plus the natural k < 10^9.
AddInt(ds, k) ==
    LET s == IntOf(LastDigits(ds, 9)) + k
        front == FrontDigits(ds, 9)
    IN  IF Len(ds) <= 9 THEN DigitsOf(s)
        ELSE IF s >= 10 ^ 9 THEN Increment(front) \o Padded(s - 10 ^ 9, 9)
        ELSE front \o Padded(s, 9)

RECURSIVE MulLimb(_, _)
\* Coefficient ds times the natural m < 10^5, four digits of ds at a time.
MulLimb(ds, m) ==
    IF Len(ds) <= 4 THEN DigitsOf(IntOf(ds) * m)
    ELSE AddInt(MulLimb(FrontDigits(ds, 4), m) \o Zeros(4), IntOf(LastDigits(ds, 4)) * m)

RECURSIVE AddDigits(_, _)
\* The sum of two coefficients, eight digits at a time.
AddDigits(xs, ys) ==
    IF Len(ys) <= 8 THEN AddInt(xs, IntOf(ys))
    ELSE IF Len(xs) <= 8 THEN AddInt(ys, IntOf(xs))
    ELSE LET low == IntOf(LastDigits(xs, 8)) + IntOf(LastDigits(ys, 8))
             rest == AddDigits(FrontDigits(xs, 8), FrontDigits(ys, 8))
         IN  (IF low >= 10 ^ 8 THEN Increment(rest) ELSE rest) \o Padded(low % 10 ^ 8, 8)

RECURSIVE SubDigits(_, _)
\* The difference xs - ys of two coefficients, xs the larger, eight digits at a
\* time; leading zeros may remain.
SubDigits(xs, ys) ==
    IF ys = <<>> THEN xs
    ELSE LET low == IntOf(LastDigits(xs, 8)) - IntOf(LastDigits(ys, 8))
             rest == SubDigits(FrontDigits(xs, 8), FrontDigits(ys, 8))
         IN  IF Len(xs) <= 8 THEN DigitsOf(low)
             ELSE (IF low < 0 THEN Decrement(rest) ELSE rest)
                      \o Padded(IF low < 0 THEN low + 10 ^ 8 ELSE low, 8)

RECURSIVE MulDigits(_, _)
\* The product of two coefficients, four digits of ys at a time.
MulDigits(xs, ys) ==
    IF Len(ys) <= 4 THEN StripZeros(MulLimb(xs, IntOf(ys)))
    ELSE StripZeros(AddDigits(MulDigits(xs, FrontDigits(ys, 4)) \o Zeros(4),
                              MulLimb(xs, IntOf(LastDigits(ys, 4)))))

RECURSIVE LongDiv(_, _, _)
\* Long division of coefficient ds by the natural b < 10^(9-k), k digits at a
\* time: the quotient's digits (Len(ds) of them) and the remainder.
LongDiv(ds, b, k) ==
    IF ds = <<>> THEN [q |-> <<>>, r |-> 0]
    ELSE LET front == LongDiv(FrontDigits(ds, k), b, k)
             low == LastDigits(ds, k)
             cur == front.r * 10 ^ Len(low) + IntOf(low)
         IN  [q |-> front.q \o Padded(cur \div b, Len(low)), r |-> cur % b]

\* Drop at most k trailing zeros of a coefficient; the result and how many went.
StripTrailing(ds, k) ==
    LET nz == {i \in 1..Len(ds) : ds[i] # 0 \/ i = 1 \/ i <= Len(ds) - k}
        end == CHOOSE i \in nz : \A j \in nz : i >= j
    IN  [dig |-> SubSeq(ds, 1, end), n |-> Len(ds) - end]

\* Drop the last k >= 1 digits of a coefficient, ROUND_HALF_EVEN (the context's
\* default rounding).
RoundDrop(ds, k) ==
    LET padded == IF Len(ds) < k THEN Zeros(k - Len(ds)) \o ds ELSE ds
        m == Len(padded)
        kept == IF m = k THEN <<0>> ELSE SubSeq(padded, 1, m - k)
        dropped == SubSeq(padded, m - k + 1, m)
        restNonZero == \E i \in 2..k : dropped[i] # 0
        up == \/ dropped[1] > 5
              \/ dropped[1] = 5 /\ (restNonZero \/ kept[Len(kept)] % 2 = 1)
    IN  StripZeros(IF up THEN Increment(kept) ELSE kept)

Dec(neg, dig, exp) == [neg |-> neg, dig |-> dig, exp |-> exp]

DecZero == Dec(FALSE, <<0>>, 0)
DecOne == Dec(FALSE, <<1>>, 0)
DecHundred == Dec(FALSE, <<1, 0, 0>>, 0)

IsZero(d) == d.dig = <<0>>
\* d > 0, d <= 0, d == 0 as Decimal compares them (-0 == 0).
DecGtZero(d) == ~IsZero(d) /\ ~d.neg
DecLeZero(d) == ~DecGtZero(d)

\* Decimal._fix: round a result to the context precision.
Fix(d) ==
    IF Len(d.dig) <= Prec THEN d
    ELSE LET k == Len(d.dig) - Prec
             r == RoundDrop(d.dig, k)
         IN  IF Len(r) > Prec
             THEN Dec(d.neg, SubSeq(r, 1, Prec), d.exp + k + 1)
             ELSE Dec(d.neg, r, d.exp + k)

\* xs < ys for two coefficients without leading zeros.
LessDigits(xs, ys) ==
    \/ Len(xs) < Len(ys)
    \/ /\ Len(xs) = Len(ys)
       /\ \E i \in 1..Len(xs) : xs[i] < ys[i] /\ \A j \in 1..(i - 1) : xs[j] = ys[j]

\* Decimal.__add__: both operands at the smaller exponent, then the signed sum.
DecAdd(a, b) ==
    LET e == IF a.exp < b.exp THEN a.exp ELSE b.exp
        x == StripZeros(a.dig \o Zeros(a.exp - e))
        y == StripZeros(b.dig \o Zeros(b.exp - e))
    IN  IF IsZero(a) /\ IsZero(b) THEN Dec(a.neg /\ b.neg, <<0>>, e)
        ELSE IF a.neg = b.neg THEN Fix(Dec(a.neg, StripZeros(AddDigits(x, y)), e))
        ELSE IF x = y THEN Dec(FALSE, <<0>>, e)
        ELSE IF LessDigits(x, y) THEN Fix(Dec(b.neg, StripZeros(SubDigits(y, x)), e))
        ELSE Fix(Dec(a.neg, StripZeros(SubDigits(x, y)), e))

\* Decimal.__sub__
DecSub(a, b) == DecAdd(a, [b EXCEPT !.neg = ~b.neg])

\* Decimal.__mul__
DecMul(a, b) ==
    IF IsZero(a) \/ IsZero(b) THEN Dec(a.neg # b.neg, <<0>>, a.exp + b.exp)
    ELSE Fix(Dec(a.neg # b.neg,
                 IF Len(a.dig) >= Len(b.dig) THEN MulDigits(a.dig, b.dig)
                 ELSE MulDigits(b.dig, a.dig),
                 a.exp + b.exp))

\* Decimal.__truediv__ for a nonzero divisor of at most eight digits (the
\* divisors of main.py are parsed quantities and amounts).
DecDiv(a, b) ==
    IF IsZero(a) THEN Dec(a.neg # b.neg, <<0>>, a.exp - b.exp)
    ELSE LET shift == Len(b.dig) - Len(a.dig) + Prec + 1
             qr == LongDiv(a.dig \o Zeros(shift), IntOf(b.dig), 9 - Len(b.dig))
             q == StripZeros(qr.q)
             exp == a.exp - b.exp - shift
             exact == StripTrailing(q, shift)
         IN  IF qr.r # 0
             THEN Fix(Dec(a.neg # b.neg,
                          IF q[Len(q)] % 5 = 0 THEN Increment(q) ELSE q, exp))
             ELSE Fix(Dec(a.neg # b.neg, exact.dig, exp + exact.n))

\* Decimal.quantize(Decimal with exponent e): the value at exponent e.
Quantize(d, e) ==
    IF IsZero(d) THEN Dec(d.neg, <<0>>, e)
    ELSE IF d.exp >= e THEN Dec(d.neg, d.dig \o Zeros(d.exp - e), e)
    ELSE Dec(d.neg, RoundDrop(d.dig, e - d.exp), e)

\* Decimal.normalize(): no trailing zeros in the coefficient.
Normalize(d) ==
    IF IsZero(d) THEN Dec(d.neg, <<0>>, 0)
    ELSE LET s == StripTrailing(d.dig, Len(d.dig))
         IN  Dec(d.neg, s.dig, d.exp + s.n)

RECURSIVE DigitStr(_)
\* The digits ds as a string.
DigitStr(ds) ==
    IF ds = <<>> THEN ""
    ELSE IF Len(ds) = 1 THEN ToString(ds[1])
    ELSE LET h == Len(ds) \div 2
         IN  DigitStr(SubSeq(ds, 1, h)) \o DigitStr(SubSeq(ds, h + 1, Len(ds)))

\* k zeros as a string.
ZeroStr(k) == DigitStr(Zeros(k))

\* Decimal.__str__: plain notation when exp <= 0 and the number is not tiny,
\* scientific notation otherwise.
DecStr(d) ==
    LET n == Len(d.dig)
        leftdigits == d.exp + n
        dotplace == IF d.exp <= 0 /\ leftdigits > -6 THEN leftdigits ELSE 1
        intpart == IF dotplace <= 0 THEN "0"
                   ELSE IF dotplace >= n THEN DigitStr(d.dig) \o ZeroStr(dotplace - n)
                   ELSE DigitStr(SubSeq(d.dig, 1, dotplace))
        fracpart == IF dotplace <= 0 THEN "." \o ZeroStr(-dotplace) \o DigitStr(d.dig)
                    ELSE IF dotplace >= n THEN ""
                    ELSE "." \o DigitStr(SubSeq(d.dig, dotplace + 1, n))
        e == leftdigits - dotplace
        expo == IF e = 0 THEN ""
                ELSE IF e > 0 THEN "E+" \o ToString(e) ELSE "E-" \o ToString(-e)
    IN  (IF d.neg THEN "-" ELSE "") \o intpart \o fracpart \o expo

RECURSIVE Grouped(_)
\* The digits of an integer part with a comma before every group of three.
Grouped(ds) ==
    IF Len(ds) <= 3 THEN DigitStr(ds)
    ELSE Grouped(SubSeq(ds, 1, Len(ds) - 3)) \o "," \o DigitStr(SubSeq(ds, Len(ds) - 2, Len(ds)))

TWOPLACES == -2

\* fmt_money: f"{d.quantize(TWOPLACES):,.2f}"
fmt_money(d) ==
    LET q == Quantize(d, TWOPLACES)
        ds == IF Len(q.dig) < 3 THEN Zeros(3 - Len(q.dig)) \o q.dig ELSE q.dig
        n == Len(ds)
    IN  (IF q.neg THEN "-" ELSE "") \o Grouped(SubSeq(ds, 1, n - 2))
            \o "." \o DigitStr(SubSeq(ds, n - 1, n))

(***************************************************************************)
(* Texts                                                                   *)
(***************************************************************************)

\* Characters are one-character strings; "NBSP" is U+00A0 and "NL" a line break.
DigitChars == <<"0", "1", "2", "3", "4", "5", "6", "7", "8", "9">>
LowerChars == <<"a", "b", "c", "d", "e", "f", "g", "h", "i", "j", "k", "l", "m",
                "n", "o", "p", "q", "r", "s", "t", "u", "v", "w", "x", "y", "z">>
UpperChars == <<"A", "B", "C", "D", "E", "F", "G", "H", "I", "J", "K", "L", "M",
                "N", "O", "P", "Q", "R", "S", "T", "U", "V", "W", "X", "Y", "Z">>

Range(f) == {f[i] : i \in DOMAIN f}

IsDigit(c) == c \in Range(DigitChars)
DigitVal(c) == (CHOOSE i \in 1..10 : DigitChars[i] = c) - 1
\* str.isspace(), the regular expressions' \s
IsSpace(c) == c \in {" ", "NL", "NBSP"}
IsAlnum(c) == c \in Range(UpperChars) \/ IsDigit(c)
\* str.upper() of one character
UpperChar(c) ==
    IF c \in Range(LowerChars) THEN UpperChars[CHOOSE i \in 1..26 : LowerChars[i] = c] ELSE c

\* str.upper()
Upper(s) == [i \in 1..Len(s) |-> UpperChar(s[i])]

SpaceChars == {" ", "NL", "NBSP"}

\* str.replace(c, "") for every c of cs, and the re.sub that deletes a class
Without(s, cs) == SelectSeq(s, LAMBDA c : c \notin cs)

\* str.strip()
Strip(s) ==
    LET keep == {i \in 1..Len(s) : ~IsSpace(s[i])}
    IN  IF keep = {} THEN <<>>
        ELSE SubSeq(s, CHOOSE i \in keep : \A j \in keep : i <= j,
                       CHOOSE i \in keep : \A j \in keep : i >= j)

\* The end of the longest run of digits of s that starts at i (i - 1 if none).
DigitsEnd(s, i) ==
    CHOOSE k \in (i - 1)..Len(s) :
        /\ \A j \in i..k : IsDigit(s[j])
        /\ (k = Len(s) \/ ~IsDigit(s[k + 1]))

\* The end of a match of \d+(?:\.\d+)? that starts at the digit s[i].
NumberEnd(s, i) ==
    LET k == DigitsEnd(s, i)
    IN  IF k + 1 < Len(s) /\ s[k + 1] = "." /\ IsDigit(s[k + 2])
        THEN DigitsEnd(s, k + 2) ELSE k

\* Decimal("<digits>[.<digits>]"), negative if neg.
DecOfText(s, neg) ==
    LET ds == [i \in 1..Len(s) |-> IF IsDigit(s[i]) THEN DigitVal(s[i]) ELSE 10]
        coeff == SelectSeq(ds, LAMBDA d : d < 10)
        dot == {i \in 1..Len(s) : s[i] = "."}
        frac == IF dot = {} THEN 0 ELSE Len(s) - (CHOOSE i \in dot : TRUE)
    IN  Dec(neg, StripZeros(coeff), -frac)

\* parse_decimal
parse_decimal(text) ==
    LET bare == Without(text, {"$", ","})
        s == Strip([i \in 1..Len(bare) |-> IF bare[i] = "NBSP" THEN " " ELSE bare[i]])
        \* re.search(r"-?\d+(?:\.\d+)?", s): the leftmost start of a match
        starts == {i \in 1..Len(s) :
                      \/ IsDigit(s[i])
                      \/ s[i] = "-" /\ i < Len(s) /\ IsDigit(s[i + 1])}
        i0 == CHOOSE i \in starts : \A j \in starts : i <= j
        neg == s[i0] = "-"
        first == IF neg THEN i0 + 1 ELSE i0
    IN  IF text = <<>> \/ starts = {} THEN DecZero
        ELSE DecOfText(SubSeq(s, first, NumberEnd(s, first)), neg)

\* The end of the longest run of whitespace of s that starts at i (i - 1 if none).
SpacesEnd(s, i) ==
    CHOOSE k \in (i - 1)..Len(s) :
        /\ \A j \in i..k : IsSpace(s[j])
        /\ (k = Len(s) \/ ~IsSpace(s[k + 1]))

\* Python's None where a Decimal may stand: a record with no coefficient, which no
\* Decimal has.
None == [neg |-> FALSE, dig |-> <<>>, exp |-> 0]

\* percent_from_text: the first number followed by "%", as a fraction; None
\* when the text is empty or holds no percentage.
percent_from_text(text) ==
    LET \* re.search(r"(\d+(?:\.\d+)?)\s*%", text): the leftmost start of a match
        starts == {i \in 1..Len(text) :
                      /\ IsDigit(text[i])
                      /\ LET k == SpacesEnd(text, NumberEnd(text, i) + 1)
                         IN  k < Len(text) /\ text[k + 1] = "%"}
        i0 == CHOOSE i \in starts : \A j \in starts : i <= j
    IN  IF text = <<>> \/ starts = {} THEN None
        ELSE DecDiv(DecOfText(SubSeq(text, i0, NumberEnd(text, i0)), FALSE), DecHundred)

\* re.sub(r"\s+", " ", s): every run of whitespace becomes one space
CollapseSpaces(s) ==
    LET keep == {i \in 1..Len(s) : ~IsSpace(s[i]) \/ i = 1 \/ ~IsSpace(s[i - 1])}
        marked == [i \in 1..Len(s) |-> IF i \in keep
                                       THEN (IF IsSpace(s[i]) THEN " " ELSE s[i])
                                       ELSE "DROP"]
    IN  SelectSeq(marked, LAMBDA c : c # "DROP")

\* normalize_code
normalize_code(code) ==
    LET up == Upper(Strip(code))
        s == CollapseSpaces([i \in 1..Len(up) |-> IF up[i] = "NL" THEN " " ELSE up[i]])
        no_spaces == Without(s, SpaceChars)
        only_alnum == SelectSeq(s, IsAlnum)
    IN  IF only_alnum # <<>> THEN only_alnum
        ELSE IF no_spaces # <<>> THEN no_spaces
        ELSE s

(***************************************************************************)
(* Document AI entities and the rows built from them                       *)
(***************************************************************************)

\* The entity and property type names main.py looks for, as texts.
N_FECHA_FACTURA == <<"F", "E", "C", "H", "A", "_", "F", "A", "C", "T", "U", "R", "A">>
N_NUMERO_FACTURA ==
    <<"N", "U", "M", "E", "R", "O", "_">>
        \o <<"F", "A", "C", "T", "U", "R", "A">>
N_PRODUCTO == <<"P", "R", "O", "D", "U", "C", "T", "O">>
N_CODIGO_DE_PRODUCTO ==
    <<"C", "O", "D", "I", "G", "O", "_", "D", "E">>
        \o <<"_", "P", "R", "O", "D", "U", "C", "T", "O">>
N_DESCRIPCION_PRODUCTO ==
    <<"D", "E", "S", "C", "R", "I", "P", "C", "I", "O">>
        \o <<"N", "_", "P", "R", "O", "D", "U", "C", "T", "O">>
N_CANTIDAD_PRODUCTO ==
    <<"C", "A", "N", "T", "I", "D", "A", "D">>
        \o <<"_", "P", "R", "O", "D", "U", "C", "T", "O">>
N_COSTO_TOTAL_POR_PRODUCTO ==
    <<"C", "O", "S", "T", "O", "_", "T", "O", "T", "A", "L", "_">>
        \o <<"P", "O", "R", "_", "P", "R", "O", "D", "U", "C", "T", "O">>
N_DESCUENTO == <<"D", "E", "S", "C", "U", "E", "N", "T", "O">>
N_IVA == <<"I", "V", "A">>
N_IEPS == <<"I", "E", "P", "S">>
N_invoice_date == <<"i", "n", "v", "o", "i", "c", "e", "_", "d", "a", "t", "e">>
N_invoice_id == <<"i", "n", "v", "o", "i", "c", "e", "_", "i", "d">>
N_line_item == <<"l", "i", "n", "e", "_", "i", "t", "e", "m">>
N_product_code == <<"p", "r", "o", "d", "u", "c", "t", "_", "c", "o", "d", "e">>
N_description == <<"d", "e", "s", "c", "r", "i", "p", "t", "i", "o", "n">>
N_quantity == <<"q", "u", "a", "n", "t", "i", "t", "y">>
N_amount == <<"a", "m", "o", "u", "n", "t">>
N_total_amount == <<"t", "o", "t", "a", "l", "_", "a", "m", "o", "u", "n", "t">>
N_vat == <<"v", "a", "t">>
N_ieps_amount == <<"i", "e", "p", "s">>

\* str.lower()
Lower(s) ==
    [i \in 1..Len(s) |->
        IF s[i] \in Range(UpperChars)
        THEN LowerChars[CHOOSE k \in 1..26 : UpperChars[k] = s[i]] ELSE s[i]]

\* dict.get(key) on a dict of texts.  An absent key gives the empty text: every
\* caller treats None and "" alike (parse_decimal and percent_from_text test
\* "not s", the others take "value or ''").
Get(d, key) == IF key \in DOMAIN d THEN d[key] ELSE <<>>

\* _props_to_dict: the entity's properties by folded type name, each text
\* stripped; a later property of the same name replaces an earlier one.
props_to_dict(e, upper) ==
    LET ps == e.properties
        key(i) == IF upper THEN Upper(ps[i].type_) ELSE Lower(ps[i].type_)
        keys == {key(i) : i \in 1..Len(ps)}
        last(k) == CHOOSE i \in 1..Len(ps) :
                       key(i) = k /\ \A j \in 1..Len(ps) : key(j) = k => j <= i
    IN  [k \in keys |-> Strip(ps[last(k)].mention_text)]

\* dict[key] = value
Put(d, key, value) == [k \in DOMAIN d \cup {key} |-> IF k = key THEN value ELSE d[k]]

EmptyDict == [k \in {} |-> <<>>]

\* One iteration of extract_sams' loop on entity ent; st = [header, items].
extract_sams_step(st, ent) ==
    LET t == Upper(ent.type_)
    IN  IF t \in {N_FECHA_FACTURA, N_NUMERO_FACTURA}
        THEN [st EXCEPT !.header = Put(st.header, t, Strip(ent.mention_text))]
        ELSE IF t = N_PRODUCTO
        THEN [st EXCEPT !.items = Append(st.items, props_to_dict(ent, TRUE))]
        ELSE st

\* One iteration of extract_city's loop on entity ent; st = [header, items].
extract_city_step(st, ent) ==
    LET t == Lower(ent.type_)
    IN  IF t \in {N_invoice_date, N_invoice_id}
        THEN [st EXCEPT !.header = Put(st.header, t, Strip(ent.mention_text))]
        ELSE IF t = N_line_item
        THEN [st EXCEPT !.items = Append(st.items, props_to_dict(ent, FALSE))]
        ELSE st

extract_step(provider, st, ent) ==
    IF provider = "SAMS" THEN extract_sams_step(st, ent) ELSE extract_city_step(st, ent)

RECURSIVE extract_from(_, _, _)
\* extract_sams / extract_city: the loop over the document's entities from st on.
extract_from(provider, st, ents) ==
    IF ents = <<>> THEN st
    ELSE extract_from(provider, extract_step(provider, st, Head(ents)), Tail(ents))

\* extract_sams(doc) / extract_city(doc)
extract(provider, ents) ==
    extract_from(provider, [header |-> EmptyDict, items |-> <<>>], ents)

\* The invoice number procesar_facturas reads from the header.
invoice_num_of(provider, header) ==
    Get(header, IF provider = "SAMS" THEN N_NUMERO_FACTURA ELSE N_invoice_id)

\* The raw invoice date procesar_facturas reads from the header.
invoice_date_of(provider, header) ==
    Get(header, IF provider = "SAMS" THEN N_FECHA_FACTURA ELSE N_invoice_date)

\* int(d) printed, for a Decimal of exponent 0
IntStr(d) == (IF d.neg /\ ~IsZero(d) THEN "-" ELSE "") \o DigitStr(d.dig)

\* f"{p.quantize(Decimal('0.1')).normalize()}" for a percentage p
PercentStr(p) == DecStr(Normalize(Quantize(p, -1)))

\* A rate, or 0 when the text gave none.
rate_or_zero(pct) == IF pct # None THEN pct ELSE DecZero

\* x * (1 + iva_value) * (1 + ieps_value)
with_taxes(x, iva_value, ieps_value) ==
    DecMul(DecMul(x, DecAdd(DecOne, iva_value)), DecAdd(DecOne, ieps_value))

\* The IVA label compute_unit_and_labels gives a rate.
iva_label_of(iva_value) ==
    IF IsZero(iva_value) THEN "No Aplicable"
    ELSE "Aplicable " \o IntStr(Quantize(DecMul(iva_value, DecHundred), 0)) \o "%"

\* str(ieps_percent), as an integer when it ends in ".0"
ieps_percent_str(ieps_percent) ==
    IF ieps_percent.exp = -1 /\ ieps_percent.dig[Len(ieps_percent.dig)] = 0
    THEN DecStr(Quantize(ieps_percent, 0))
    ELSE DecStr(ieps_percent)

\* ieps_label_of with a rate of 0 labelled like an absent one.
ieps_label_of_zero_na(ieps_pct) ==
    IF ieps_pct = None \/ IsZero(ieps_pct) THEN "No Aplicable"
    ELSE "Aplicable "
           \o ieps_percent_str(Normalize(Quantize(DecMul(ieps_pct, DecHundred), -1)))
           \o "%"

\* The IEPS label compute_unit_and_labels gives a rate.
ieps_label_of(ieps_pct) ==
    IF ieps_pct = None THEN "No Aplicable"
    ELSE "Aplicable "
           \o ieps_percent_str(Normalize(Quantize(DecMul(ieps_pct, DecHundred), -1)))
           \o "%"

\* compute_unit_and_labels whose early return zeroes the costs only.
compute_unit_and_labels_costs_only(amount, discount, qty, iva_pct, ieps_pct) ==
    IF DecLeZero(qty)
    THEN [unit_net |-> DecZero, line_net |-> DecZero,
          iva_label |-> iva_label_of(rate_or_zero(iva_pct)),
          ieps_label |-> ieps_label_of(ieps_pct)]
    ELSE [unit_net |-> with_taxes(DecDiv(DecSub(amount, discount), qty),
                                  rate_or_zero(iva_pct), rate_or_zero(ieps_pct)),
          line_net |-> with_taxes(DecSub(amount, discount),
                                  rate_or_zero(iva_pct), rate_or_zero(ieps_pct)),
          iva_label |-> iva_label_of(rate_or_zero(iva_pct)),
          ieps_label |-> ieps_label_of(ieps_pct)]

\* compute_unit_and_labels whose line_net forgets the discount.
compute_unit_and_labels_gross_line(amount, discount, qty, iva_pct, ieps_pct) ==
    IF DecLeZero(qty)
    THEN [unit_net |-> DecZero, line_net |-> DecZero,
          iva_label |-> "No Aplicable", ieps_label |-> "No Aplicable"]
    ELSE [unit_net |-> with_taxes(DecDiv(DecSub(amount, discount), qty),
                                  rate_or_zero(iva_pct), rate_or_zero(ieps_pct)),
          line_net |-> with_taxes(amount, rate_or_zero(iva_pct), rate_or_zero(ieps_pct)),
          iva_label |-> iva_label_of(rate_or_zero(iva_pct)),
          ieps_label |-> ieps_label_of(ieps_pct)]

\* compute_unit_and_labels(amount, discount, qty, iva_pct, ieps_pct)
compute_unit_and_labels(amount, discount, qty, iva_pct, ieps_pct) ==
    IF DecLeZero(qty)
    THEN [unit_net |-> DecZero, line_net |-> DecZero,
          iva_label |-> "No Aplicable", ieps_label |-> "No Aplicable"]
    ELSE [unit_net |-> with_taxes(DecDiv(DecSub(amount, discount), qty),
                                  rate_or_zero(iva_pct), rate_or_zero(ieps_pct)),
          line_net |-> with_taxes(DecSub(amount, discount),
                                  rate_or_zero(iva_pct), rate_or_zero(ieps_pct)),
          iva_label |-> iva_label_of(rate_or_zero(iva_pct)),
          ieps_label |-> ieps_label_of(ieps_pct)]

\* dedupe_key_sams(it, iva_pct, ieps_pct)
dedupe_key_sams(it, iva_pct, ieps_pct) ==
    LET amt == parse_decimal(Get(it, N_COSTO_TOTAL_POR_PRODUCTO))
        qty == parse_decimal(Get(it, N_CANTIDAD_PRODUCTO))
        code == Upper(Strip(Get(it, N_CODIGO_DE_PRODUCTO)))
        desc == Upper(Strip(Get(it, N_DESCRIPCION_PRODUCTO)))
        iva == IF iva_pct = None \/ IsZero(iva_pct) THEN "0" ELSE DecStr(iva_pct)
        ieps == IF ieps_pct # None THEN DecStr(ieps_pct) ELSE "None"
    IN  <<normalize_code(code), desc, DecStr(qty), DecStr(Quantize(amt, TWOPLACES)), iva, ieps>>

\* dedupe_key_city(it)
dedupe_key_city(it) ==
    LET amt == parse_decimal(Get(it, N_amount))
        qty == parse_decimal(Get(it, N_quantity))
        code == Upper(Strip(Get(it, N_product_code)))
        desc == Upper(Strip(Get(it, N_description)))
    IN  <<normalize_code(code), desc, DecStr(qty), DecStr(Quantize(amt, TWOPLACES))>>

\* Cell i of a PRODUCTOS row, stripped ("" when the row is shorter).
Cell(row, i) == IF Len(row) >= i THEN Strip(row[i]) ELSE <<>>

\* The keys build_products_mapping files a supplier code under.
MappingKeys(supplier_code) ==
    LET up == Upper(Strip(supplier_code))
        raw == CollapseSpaces([i \in 1..Len(up) |-> IF up[i] = "NL" THEN " " ELSE up[i]])
    IN  {raw, Without(raw, SpaceChars), SelectSeq(raw, IsAlnum)} \ {<<>>}

\* build_products_mapping on the values of PRODUCTOS!A:D (the first row is the
\* heading): normalised supplier code -> <<sku, description>>, a later row
\* replacing an earlier one.
build_products_mapping(values) ==
    LET rows == {i \in 2..Len(values) : Cell(values[i], 4) # <<>>}
        keys == UNION {MappingKeys(Cell(values[i], 4)) : i \in rows}
        last(k) == CHOOSE i \in rows :
                       /\ k \in MappingKeys(Cell(values[i], 4))
                       /\ \A j \in rows : k \in MappingKeys(Cell(values[j], 4)) => j <= i
    IN  [k \in keys |->
            <<IF Cell(values[last(k)], 1) # <<>> THEN Cell(values[last(k)], 1)
              ELSE Cell(values[last(k)], 4),
              Cell(values[last(k)], 2)>>]

\* sku_and_desc_from_mapping(mapping, supplier_code)
sku_and_desc_from_mapping(mapping, supplier_code) ==
    LET key == normalize_code(supplier_code)
    IN  IF key \in DOMAIN mapping THEN mapping[key] ELSE <<supplier_code, <<>>>>

\* The row out_rows.append([...]) adds (columns A-G, I, J of ENTRADAS; column
\* H, the formatted invoice date, is the same for every row of a document and
\* is left out).  m is the <<sku, description>> of the mapping.
out_row(m, desc_doc, qty, unit_net, line_net, iva_label, ieps_label, invoice_num, provider) ==
    [sku |-> m[1],
     desc |-> IF m[2] # <<>> THEN m[2] ELSE desc_doc,
     qty |-> DecStr(Quantize(qty, 0)),
     unit |-> fmt_money(unit_net),
     line |-> fmt_money(line_net),
     iva_label |-> iva_label,
     ieps_label |-> ieps_label,
     invoice_num |-> invoice_num,
     provider |-> provider]

\* The row of a SAMS item whose net costs and labels are c.
sams_out_row(it, c, mapping, invoice_num) ==
    out_row(sku_and_desc_from_mapping(mapping, Strip(Get(it, N_CODIGO_DE_PRODUCTO))),
            Strip(Get(it, N_DESCRIPCION_PRODUCTO)),
            parse_decimal(Get(it, N_CANTIDAD_PRODUCTO)),
            c.unit_net, c.line_net, c.iva_label, c.ieps_label, invoice_num, "Sam's Club")

\* The net costs and labels of a SAMS item.
sams_unit_and_labels(it) ==
    compute_unit_and_labels(parse_decimal(Get(it, N_COSTO_TOTAL_POR_PRODUCTO)),
                            parse_decimal(Get(it, N_DESCUENTO)),
                            parse_decimal(Get(it, N_CANTIDAD_PRODUCTO)),
                            percent_from_text(Get(it, N_IVA)),
                            percent_from_text(Get(it, N_IEPS)))

\* The row procesar_facturas builds for one SAMS item.
sams_row(it, mapping, invoice_num) ==
    sams_out_row(it, sams_unit_and_labels(it), mapping, invoice_num)

\* The IVA rate of a CITY item whose VAT is positive: VAT over amount + IEPS.
city_vat_pct(vat_amount, base_for_vat) ==
    IF DecGtZero(base_for_vat) THEN DecDiv(vat_amount, base_for_vat) ELSE DecZero

\* city_iva_label with the rate taken over the amount alone.
city_iva_label_over_amount(amount_gross, vat_amount, ieps_amount) ==
    IF DecGtZero(vat_amount)
    THEN "Aplicable "
           \o PercentStr(DecMul(city_vat_pct(vat_amount,
                                             IF DecGtZero(amount_gross)
                                             THEN amount_gross ELSE DecZero),
                                DecHundred))
           \o "%"
    ELSE "No Aplicable"

\* The IVA label of a CITY item.
city_iva_label(amount_gross, vat_amount, ieps_amount) ==
    IF DecGtZero(vat_amount)
    THEN "Aplicable "
           \o PercentStr(DecMul(city_vat_pct(vat_amount,
                                             IF DecGtZero(amount_gross)
                                             THEN DecAdd(amount_gross, ieps_amount)
                                             ELSE DecZero),
                                DecHundred))
           \o "%"
    ELSE "No Aplicable"

\* The IEPS label of a CITY item.
city_ieps_label(amount_gross, ieps_amount) ==
    IF DecGtZero(ieps_amount) /\ DecGtZero(amount_gross)
    THEN "Aplicable "
           \o PercentStr(DecMul(DecDiv(ieps_amount, amount_gross), DecHundred)) \o "%"
    ELSE "No Aplicable"

\* The unit net cost of a CITY item.
city_unit_net(total_amount, qty) ==
    IF DecGtZero(qty) THEN DecDiv(total_amount, qty) ELSE DecZero

\* The row of a CITY item with the given amounts.
city_out_row(it, qty, amount_gross, total_amount, vat_amount, ieps_amount, mapping, invoice_num) ==
    out_row(sku_and_desc_from_mapping(mapping, Strip(Get(it, N_product_code))),
            Strip(Get(it, N_description)),
            qty, city_unit_net(total_amount, qty), total_amount,
            city_iva_label(amount_gross, vat_amount, ieps_amount),
            city_ieps_label(amount_gross, ieps_amount),
            invoice_num, "City Club")

\* The row procesar_facturas builds for one CITY item.
city_row(it, mapping, invoice_num) ==
    city_out_row(it, parse_decimal(Get(it, N_quantity)),
                 parse_decimal(Get(it, N_amount)),
                 parse_decimal(Get(it, N_total_amount)),
                 parse_decimal(Get(it, N_vat)),
                 parse_decimal(Get(it, N_ieps_amount)),
                 mapping, invoice_num)

\* The fingerprint of an item, as the provider's loop computes it.
dedupe_key(provider, it) ==
    IF provider = "SAMS"
    THEN dedupe_key_sams(it, percent_from_text(Get(it, N_IVA)),
                         percent_from_text(Get(it, N_IEPS)))
    ELSE dedupe_key_city(it)

item_row(provider, it, mapping, invoice_num) ==
    IF provider = "SAMS" THEN sams_row(it, mapping, invoice_num)
    ELSE city_row(it, mapping, invoice_num)

\* item_step without the test "k in seen".
item_step_keeps_duplicates(provider, st, it, mapping, invoice_num) ==
    [seen |-> st.seen \cup {dedupe_key(provider, it)},
     out_rows |-> Append(st.out_rows, item_row(provider, it, mapping, invoice_num))]

\* One iteration of the item loop of procesar_facturas; st = [seen, out_rows].
item_step(provider, st, it, mapping, invoice_num) ==
    LET k == dedupe_key(provider, it)
    IN  IF k \in st.seen THEN st
        ELSE [seen |-> st.seen \cup {k},
              out_rows |-> Append(st.out_rows, item_row(provider, it, mapping, invoice_num))]

RECURSIVE rows_from(_, _, _, _, _)
\* The item loop of procesar_facturas from st on.
rows_from(provider, st, items, mapping, invoice_num) ==
    IF items = <<>> THEN st
    ELSE rows_from(provider, item_step(provider, st, Head(items), mapping, invoice_num),
                   Tail(items), mapping, invoice_num)

(***************************************************************************)
(* The documents and sheets the model runs on                              *)
(***************************************************************************)

\* Entities as Document AI returns them: type_, mention_text and properties.
SamsNumero ==
    [type_ |-> N_NUMERO_FACTURA, mention_text |-> <<"A", "-", "1", "0", "0">>,
     properties |-> <<>>]

SamsNumeroLower ==
    [type_ |-> <<"n", "u", "m", "e", "r", "o", "_", "f", "a", "c", "t", "u", "r", "a">>, mention_text |-> <<" ", "B", "-", "2", "0", "0", " ">>,
     properties |-> <<>>]

SamsNumeroEmpty ==
    [type_ |-> N_NUMERO_FACTURA, mention_text |-> <<" ">>,
     properties |-> <<>>]

SamsLeche ==
    [type_ |-> N_PRODUCTO, mention_text |-> <<>>,
     properties |-> <<[type_ |-> N_CODIGO_DE_PRODUCTO, mention_text |-> <<"a", "b", "-", "1">>],
         [type_ |-> N_DESCRIPCION_PRODUCTO, mention_text |-> <<"L", "e", "c", "h", "e">>],
         [type_ |-> N_CANTIDAD_PRODUCTO, mention_text |-> <<"2">>],
         [type_ |-> N_COSTO_TOTAL_POR_PRODUCTO, mention_text |-> <<"1", "0", "0", ".", "0", "0">>],
         [type_ |-> N_DESCUENTO, mention_text |-> <<"1", "0", ".", "0", "0">>],
         [type_ |-> N_IVA, mention_text |-> <<"I", "V", "A", " ", "1", "6", "%">>],
         [type_ |-> N_IEPS, mention_text |-> <<"I", "E", "P", "S", " ", "8", "%">>]>>]

SamsLecheAgain ==
    [type_ |-> <<"p", "r", "o", "d", "u", "c", "t", "o">>, mention_text |-> <<>>,
     properties |-> <<[type_ |-> N_CODIGO_DE_PRODUCTO, mention_text |-> <<" ", "A", "B", " ", "1">>],
         [type_ |-> N_DESCRIPCION_PRODUCTO, mention_text |-> <<"l", "e", "c", "h", "e", " ">>],
         [type_ |-> N_CANTIDAD_PRODUCTO, mention_text |-> <<"2">>],
         [type_ |-> N_COSTO_TOTAL_POR_PRODUCTO, mention_text |-> <<"$", "1", "0", "0", ".", "0", "0">>],
         [type_ |-> N_DESCUENTO, mention_text |-> <<"1", "0", ".", "0", "0">>],
         [type_ |-> N_IVA, mention_text |-> <<"T", "a", "s", "a", " ", "o", " ", "C", "u", "o", "t", "a", ":", " ", "1", "6", "%">>],
         [type_ |-> N_IEPS, mention_text |-> <<"8", " ", "%">>]>>]

SamsLecheNoDiscount ==
    [type_ |-> N_PRODUCTO, mention_text |-> <<>>,
     properties |-> <<[type_ |-> N_CODIGO_DE_PRODUCTO, mention_text |-> <<"a", "b", "-", "1">>],
         [type_ |-> N_DESCRIPCION_PRODUCTO, mention_text |-> <<"L", "e", "c", "h", "e">>],
         [type_ |-> N_CANTIDAD_PRODUCTO, mention_text |-> <<"2">>],
         [type_ |-> N_COSTO_TOTAL_POR_PRODUCTO, mention_text |-> <<"1", "0", "0", ".", "0", "0">>],
         [type_ |-> N_DESCUENTO, mention_text |-> <<"0", ".", "0", "0">>],
         [type_ |-> N_IVA, mention_text |-> <<"I", "V", "A", " ", "1", "6", "%">>],
         [type_ |-> N_IEPS, mention_text |-> <<"I", "E", "P", "S", " ", "8", "%">>]>>]

SamsLecheNoIva ==
    [type_ |-> N_PRODUCTO, mention_text |-> <<>>,
     properties |-> <<[type_ |-> N_CODIGO_DE_PRODUCTO, mention_text |-> <<"a", "b", "-", "1">>],
         [type_ |-> N_DESCRIPCION_PRODUCTO, mention_text |-> <<"L", "e", "c", "h", "e">>],
         [type_ |-> N_CANTIDAD_PRODUCTO, mention_text |-> <<"2">>],
         [type_ |-> N_COSTO_TOTAL_POR_PRODUCTO, mention_text |-> <<"1", "0", "0", ".", "0", "0">>],
         [type_ |-> N_DESCUENTO, mention_text |-> <<"1", "0", ".", "0", "0">>],
         [type_ |-> N_IVA, mention_text |-> <<"I", "V", "A", " ", "0", "%">>],
         [type_ |-> N_IEPS, mention_text |-> <<"I", "E", "P", "S", " ", "8", "%">>]>>]

SamsTotal ==
    [type_ |-> <<"T", "O", "T", "A", "L">>, mention_text |-> <<"1", "0", "4", ".", "4", "0">>,
     properties |-> <<>>]

CityId ==
    [type_ |-> N_invoice_id, mention_text |-> <<"F", "-", "1">>,
     properties |-> <<>>]

CityIdUpper ==
    [type_ |-> <<"I", "N", "V", "O", "I", "C", "E", "_", "I", "D">>, mention_text |-> <<"F", "-", "2">>,
     properties |-> <<>>]

CityIdEmpty ==
    [type_ |-> N_invoice_id, mention_text |-> <<>>,
     properties |-> <<>>]

CityPan ==
    [type_ |-> N_line_item, mention_text |-> <<>>,
     properties |-> <<[type_ |-> N_product_code, mention_text |-> <<"7", "5", "0", "1">>],
         [type_ |-> N_description, mention_text |-> <<"P", "a", "n">>],
         [type_ |-> N_quantity, mention_text |-> <<"1", "0">>],
         [type_ |-> N_amount, mention_text |-> <<"2", "0", "0", ".", "0", "0">>],
         [type_ |-> N_total_amount, mention_text |-> <<"2", "3", "2", ".", "0", "0">>],
         [type_ |-> N_vat, mention_text |-> <<"3", "2", ".", "0", "0">>],
         [type_ |-> N_ieps_amount, mention_text |-> <<"0">>]>>]

CityPanAgain ==
    [type_ |-> <<"L", "i", "n", "e", "_", "I", "t", "e", "m">>, mention_text |-> <<>>,
     properties |-> <<[type_ |-> N_product_code, mention_text |-> <<"7", "5", "-", "0", "1">>],
         [type_ |-> N_description, mention_text |-> <<"P", "A", "N">>],
         [type_ |-> N_quantity, mention_text |-> <<"1", "0">>],
         [type_ |-> N_amount, mention_text |-> <<"2", "0", "0">>],
         [type_ |-> N_total_amount, mention_text |-> <<"2", "2", "0", ".", "0", "0">>],
         [type_ |-> N_vat, mention_text |-> <<"2", "0", ".", "0", "0">>],
         [type_ |-> N_ieps_amount, mention_text |-> <<>>],
         [type_ |-> <<"Q", "U", "A", "N", "T", "I", "T", "Y">>, mention_text |-> <<"1", "0">>]>>]

CityPanReturned ==
    [type_ |-> N_line_item, mention_text |-> <<>>,
     properties |-> <<[type_ |-> N_product_code, mention_text |-> <<"7", "5", "0", "1">>],
         [type_ |-> N_description, mention_text |-> <<"P", "a", "n">>],
         [type_ |-> N_quantity, mention_text |-> <<"0">>],
         [type_ |-> N_amount, mention_text |-> <<"1", "5", "0", ".", "0", "0">>],
         [type_ |-> N_total_amount, mention_text |-> <<"0", ".", "0", "0">>],
         [type_ |-> N_vat, mention_text |-> <<"2", "4", ".", "0", "0">>],
         [type_ |-> N_ieps_amount, mention_text |-> <<"1", "2", ".", "0", "0">>]>>]

\* The entities a SAMS / CITY document is made of.
SamsEntities ==
    {SamsNumero, SamsNumeroLower, SamsNumeroEmpty, SamsLeche, SamsLecheAgain,
     SamsLecheNoDiscount, SamsLecheNoIva}
CityEntities ==
    {CityId, CityIdUpper, CityIdEmpty, CityPan, CityPanAgain, CityPanReturned}
EntitiesOf(provider) == IF provider = "SAMS" THEN SamsEntities ELSE CityEntities

\* The values of PRODUCTOS!A:D: heading, then SKU, description, -, supplier code.
Productos ==
    <<<<<<"S", "K", "U">>, <<"D", "e", "s", "c">>, <<>>, <<"C", "o", "d">>>>,
      <<<<"L", "-", "1">>, <<"L", "e", "c", "h", "e", " ", "1", "L">>, <<>>, <<"a", "b", " ", "1">>>>,
      <<<<>>, <<>>, <<>>, <<"x", "9">>>>>>

\* The documents the deliveries model handles: provider as detect_provider
\* reads it off the first page, entities as Document AI returns them.
Documents ==
    {[provider |-> "SAMS",
      entities |-> <<SamsNumero, SamsLeche, SamsLecheAgain, SamsLecheNoIva>>],
     [provider |-> "SAMS", entities |-> <<SamsNumero, SamsTotal>>],
     [provider |-> "CITY",
      entities |-> <<CityId, CityPan, CityPanAgain, CityPanReturned>>],
     [provider |-> "UNKNOWN", entities |-> <<>>]}

\* The texts a SAMS line item's fields are drawn from.
SamsQtyTexts == {<<>>, <<"0">>, <<"-", "1">>, <<"2">>, <<"3">>, <<"7">>}
SamsGrossTexts ==
    {<<"0">>, <<"1", "0", "0", ".", "0", "0">>, <<"9", ".", "9", "1", "5">>,
     <<"$", "1", ",", "2", "3", "4", ".", "5", "0">>}
SamsDiscountTexts == {<<>>, <<"1", "0", ".", "0", "0">>}
SamsIvaTexts ==
    {<<>>, <<"0", "%">>, <<"I", "V", "A", " ", "1", "6", "%">>, <<"0", ".", "4", "%">>,
     <<"2", ".", "5", "%">>}
SamsIepsTexts ==
    {<<>>, <<"0", "%">>, <<"8", "%">>, <<"8", ".", "5", " ", "%">>, <<"2", "0", "%">>}

\* The texts a CITY line item's fields are drawn from.
CityQtyTexts == {<<>>, <<"0">>, <<"-", "2">>, <<"1", "0">>}
CityAmountTexts ==
    {<<"0">>, <<"2", "0", "0", ".", "0", "0">>, <<"1", "5", "0", ".", "0", "0">>}
CityVatTexts ==
    {<<>>, <<"0">>, <<"3", "2", ".", "0", "0">>, <<"1", "0", ".", "0", "0">>,
     <<"2", "4", ".", "0", "0">>, <<"4", "0", ".", "0", "0">>}
CityIepsTexts == {<<>>, <<"1", "2", ".", "0", "0">>, <<"5", "0">>}
CityTotalTexts == {<<"2", "3", "2", ".", "0", "0">>, <<"1", "0", "0">>}

Property(name, text) == [type_ |-> name, mention_text |-> text]

\* A PRODUCTO entity with the given field texts.
SamsItemEntity(qty, gross, discount, iva, ieps) ==
    [type_ |-> N_PRODUCTO, mention_text |-> <<>>,
     properties |->
        <<Property(N_CODIGO_DE_PRODUCTO, <<"x", "9">>),
          Property(N_DESCRIPCION_PRODUCTO, <<"P", "a", "n">>),
          Property(N_CANTIDAD_PRODUCTO, qty),
          Property(N_COSTO_TOTAL_POR_PRODUCTO, gross),
          Property(N_DESCUENTO, discount),
          Property(N_IVA, iva),
          Property(N_IEPS, ieps)>>]

\* A line_item entity with the given field texts.
CityItemEntity(qty, amount, total, vat, ieps) ==
    [type_ |-> N_line_item, mention_text |-> <<>>,
     properties |->
        <<Property(N_product_code, <<"7", "5", "0", "1">>),
          Property(N_description, <<"P", "a", "n">>),
          Property(N_quantity, qty),
          Property(N_amount, amount),
          Property(N_total_amount, total),
          Property(N_vat, vat),
          Property(N_ieps_amount, ieps)>>]

SamsItemEntities ==
    {SamsItemEntity(q, g, d, i, e) :
        q \in SamsQtyTexts, g \in SamsGrossTexts, d \in SamsDiscountTexts,
        i \in SamsIvaTexts, e \in SamsIepsTexts}

CityItemEntities ==
    {CityItemEntity(q, a, t, v, e) :
        q \in CityQtyTexts, a \in CityAmountTexts, t \in CityTotalTexts,
        v \in CityVatTexts, e \in CityIepsTexts}

(***************************************************************************)
(* The state                                                               *)
(***************************************************************************)

\* The number of times the upload's event is delivered (at-least-once delivery).
MaxDeliveries == 2
\* The number of entities of a document in the loop-by-loop model.
MaxEntities == 3

INPUT_BUCKET == "input"
PROCESSED_BUCKET == "processed"
\* A bucket other than the two configured ones that an event may name.
OTHER_BUCKET == "upload"

VARIABLES
    blobs,      \* the buckets that hold the uploaded PDF
    sheet,      \* the rows of ENTRADAS
    document,   \* the PDF: [provider, entities]
    event,      \* the data of the storage event: [bucket, name]
    inv,        \* per delivery: where procesar_facturas is, and its locals
    run         \* the loops of one procesar_facturas call, iteration by iteration

vars == <<blobs, sheet, document, event, inv, run>>

Deliveries == 1..MaxDeliveries

\* The locals of a delivery that has not started.
Idle ==
    [pc |-> "idle", candidate |-> 1, src_bucket_used |-> "",
     parsed |-> [header |-> EmptyDict, items |-> <<>>], out_rows |-> <<>>,
     unhandled |-> FALSE, move_called |-> FALSE]

NoRun ==
    [phase |-> "off", provider |-> "UNKNOWN", entities |-> <<>>, pos |-> 1,
     parsed |-> [header |-> EmptyDict, items |-> <<>>], invoice_num |-> <<>>,
     rows |-> [seen |-> {}, out_rows |-> <<>>]]

\* The mapping build_products_mapping() reads from PRODUCTOS.
ProductsMapping == build_products_mapping(Productos)

\* The bucket the PDF was uploaded to.
UploadBucket == IF event.bucket = "" THEN INPUT_BUCKET ELSE event.bucket

(***************************************************************************)
(* procesar_facturas, one step per call to a service                       *)
(***************************************************************************)

\* The buckets the download loop tries, in order.
Candidates == <<INPUT_BUCKET, PROCESSED_BUCKET, event.bucket>>

\* move_wanted without the test against PROCESSED_BUCKET.
move_wanted_any_source(src_bucket_used) == src_bucket_used # ""

\* The condition under which procesar_facturas calls move_blob.
move_wanted(src_bucket_used) ==
    src_bucket_used # "" /\ src_bucket_used # PROCESSED_BUCKET

\* Where the handler goes once the rows are dealt with.
AfterRows(src_bucket_used) == IF move_wanted(src_bucket_used) THEN "copy" ELSE "done"

\* The event arrives; an event without bucket or name ends the call.
Receive(p) ==
    /\ inv[p].pc = "idle"
    /\ inv' = [inv EXCEPT ![p].pc =
                   IF event.bucket = "" \/ event.name = "" THEN "done" ELSE "download"]
    /\ UNCHANGED <<blobs, sheet, document, event, run>>

\* download_bytes(candidate, name) returns the PDF.
DownloadOk(p) ==
    /\ inv[p].pc = "download"
    /\ Candidates[inv[p].candidate] \in blobs
    /\ inv' = [inv EXCEPT ![p].pc = "provider",
                          ![p].src_bucket_used = Candidates[inv[p].candidate]]
    /\ UNCHANGED <<blobs, sheet, document, event, run>>

\* download_bytes(candidate, name) raises (no such object, or the service
\* fails): the next candidate is tried, and after the last one the call ends
\* with ERROR_NO_SOURCE.
DownloadFails(p) ==
    /\ inv[p].pc = "download"
    /\ inv' = IF inv[p].candidate < Len(Candidates)
              THEN [inv EXCEPT ![p].candidate = @ + 1]
              ELSE [inv EXCEPT ![p].pc = "done"]
    /\ UNCHANGED <<blobs, sheet, document, event, run>>

\* detect_provider; an UNKNOWN document is only archived.
DetectProvider(p) ==
    /\ inv[p].pc = "provider"
    /\ inv' = [inv EXCEPT ![p].pc =
                   IF document.provider = "UNKNOWN"
                   THEN AfterRows(inv[p].src_bucket_used) ELSE "docai"]
    /\ UNCHANGED <<blobs, sheet, document, event, run>>

\* process_with_docai returns; the header and the items are extracted.
DocAIOk(p) ==
    /\ inv[p].pc = "docai"
    /\ inv' = [inv EXCEPT ![p].pc = "mapping",
                          ![p].parsed = extract(document.provider, document.entities)]
    /\ UNCHANGED <<blobs, sheet, document, event, run>>

\* A call raises inside the outer try: UNHANDLED_ERROR is logged and the call
\* ends.
Unhandled(p) ==
    /\ inv' = [inv EXCEPT ![p].pc = "done", ![p].unhandled = TRUE]
    /\ UNCHANGED <<blobs, sheet, document, event, run>>

\* process_with_docai raises.
DocAIFails(p) == inv[p].pc = "docai" /\ Unhandled(p)

\* The locals r of a delivery once the item loop has built out_rows: the rows
\* are appended if there are any.
WithRows(r, out_rows) ==
    [r EXCEPT !.out_rows = out_rows,
              !.pc = IF out_rows # <<>> THEN "append" ELSE AfterRows(r.src_bucket_used)]

\* build_products_mapping returns; the item loop builds out_rows.
MappingOk(p) ==
    /\ inv[p].pc = "mapping"
    /\ inv' = [inv EXCEPT ![p] =
                   WithRows(@, rows_from(document.provider, [seen |-> {}, out_rows |-> <<>>],
                                         inv[p].parsed.items, ProductsMapping,
                                         invoice_num_of(document.provider,
                                                        inv[p].parsed.header)).out_rows)]
    /\ UNCHANGED <<blobs, sheet, document, event, run>>

\* build_products_mapping raises.
MappingFails(p) == inv[p].pc = "mapping" /\ Unhandled(p)

\* AppendOk writing the rows over the sheet (values().update) instead of after it.
AppendOk_overwrites(p) ==
    /\ inv[p].pc = "append"
    /\ sheet' = inv[p].out_rows
    /\ inv' = [inv EXCEPT ![p].pc = AfterRows(inv[p].src_bucket_used)]
    /\ UNCHANGED <<blobs, document, event, run>>

\* values().append(...).execute() returns: the rows are in ENTRADAS.
AppendOk(p) ==
    /\ inv[p].pc = "append"
    /\ sheet' = sheet \o inv[p].out_rows
    /\ inv' = [inv EXCEPT ![p].pc = AfterRows(inv[p].src_bucket_used)]
    /\ UNCHANGED <<blobs, document, event, run>>

\* values().append(...).execute() raises.
AppendFails(p) == inv[p].pc = "append" /\ Unhandled(p)

\* move_blob: copy_blob returns.
CopyOk(p) ==
    /\ inv[p].pc = "copy"
    /\ inv[p].src_bucket_used \in blobs
    /\ blobs' = blobs \cup {PROCESSED_BUCKET}
    /\ inv' = [inv EXCEPT ![p].pc = "delete", ![p].move_called = TRUE]
    /\ UNCHANGED <<sheet, document, event, run>>

\* move_blob: copy_blob raises (the source is gone, or the service fails);
\* MOVE_ERROR is logged.
CopyFails(p) ==
    /\ inv[p].pc = "copy"
    /\ inv' = [inv EXCEPT ![p].pc = "done", ![p].move_called = TRUE]
    /\ UNCHANGED <<blobs, sheet, document, event, run>>

\* move_blob: blob.delete() returns.
DeleteOk(p) ==
    /\ inv[p].pc = "delete"
    /\ inv[p].src_bucket_used \in blobs
    /\ blobs' = blobs \ {inv[p].src_bucket_used}
    /\ inv' = [inv EXCEPT ![p].pc = "done"]
    /\ UNCHANGED <<sheet, document, event, run>>

\* move_blob: blob.delete() raises; MOVE_ERROR is logged.
DeleteFails(p) ==
    /\ inv[p].pc = "delete"
    /\ inv' = [inv EXCEPT ![p].pc = "done"]
    /\ UNCHANGED <<blobs, sheet, document, event, run>>

Init ==
    /\ document \in Documents
    /\ event \in {[bucket |-> b, name |-> "factura.pdf"] :
                     b \in {INPUT_BUCKET, OTHER_BUCKET, ""}}
    /\ blobs = {UploadBucket}
    /\ sheet = <<>>
    /\ inv = [p \in Deliveries |-> Idle]
    /\ run = NoRun

Next ==
    \E p \in Deliveries :
        \/ Receive(p)
        \/ DownloadOk(p)
        \/ DownloadFails(p)
        \/ DetectProvider(p)
        \/ DocAIOk(p)
        \/ DocAIFails(p)
        \/ MappingOk(p)
        \/ MappingFails(p)
        \/ AppendOk(p)
        \/ AppendFails(p)
        \/ CopyOk(p)
        \/ CopyFails(p)
        \/ DeleteOk(p)
        \/ DeleteFails(p)

Spec == Init /\ [][Next]_vars

(***************************************************************************)
(* The loops of one call, one iteration per step                           *)
(***************************************************************************)

\* One iteration of the loop of extract_sams / extract_city.
ExtractEntity ==
    /\ run.phase = "extract"
    /\ run.pos <= Len(run.entities)
    /\ run' = [run EXCEPT !.parsed = extract_step(run.provider, @, run.entities[run.pos]),
                          !.pos = @ + 1]
    /\ UNCHANGED <<blobs, sheet, document, event, inv>>

\* The entities are exhausted: the invoice number is read from the header and
\* the item loop starts.
ParseOk ==
    /\ run.phase = "extract"
    /\ run.pos > Len(run.entities)
    /\ run' = [run EXCEPT !.phase = "rows", !.pos = 1,
                          !.invoice_num = invoice_num_of(run.provider, run.parsed.header)]
    /\ UNCHANGED <<blobs, sheet, document, event, inv>>

\* One iteration of the item loop.
ItemIteration ==
    /\ run.phase = "rows"
    /\ run.pos <= Len(run.parsed.items)
    /\ run' = [run EXCEPT !.rows = item_step(run.provider, @, run.parsed.items[run.pos],
                                             ProductsMapping, run.invoice_num),
                          !.pos = @ + 1]
    /\ UNCHANGED <<blobs, sheet, document, event, inv>>

\* The items are exhausted: out_rows is what the call appends.
RowsDone ==
    /\ run.phase = "rows"
    /\ run.pos > Len(run.parsed.items)
    /\ run' = [run EXCEPT !.phase = "done"]
    /\ UNCHANGED <<blobs, sheet, document, event, inv>>

\* The sequences over S of length at most n.
SeqsUpTo(S, n) == UNION {[1..k -> S] : k \in 0..n}

StartRun(provider, entities) ==
    /\ run = [NoRun EXCEPT !.phase = "extract", !.provider = provider,
                           !.entities = entities]
    /\ document = [provider |-> provider, entities |-> entities]
    /\ event = [bucket |-> INPUT_BUCKET, name |-> "factura.pdf"]
    /\ blobs = {INPUT_BUCKET}
    /\ sheet = <<>>
    /\ inv = [p \in Deliveries |-> Idle]

\* A document of at most MaxEntities entities.
InitDoc ==
    \E provider \in {"SAMS", "CITY"} :
        \E entities \in SeqsUpTo(EntitiesOf(provider), MaxEntities) :
            StartRun(provider, entities)

NextRun == ExtractEntity \/ ParseOk \/ ItemIteration \/ RowsDone

SpecDoc == InitDoc /\ [][NextRun]_vars

\* A document of one line item.
InitItem ==
    \/ \E e \in SamsItemEntities : StartRun("SAMS", <<e>>)
    \/ \E e \in CityItemEntities : StartRun("CITY", <<e>>)

SpecItem == InitItem /\ [][NextRun]_vars

(***************************************************************************)
(* Properties                                                              *)
(***************************************************************************)

\* d > 0 and d <= 0 for a Decimal, read off its sign and digits.
Positive(d) == ~d.neg /\ \E i \in 1..Len(d.dig) : d.dig[i] # 0
NonPositive(d) == ~Positive(d)

\* The strictly increasing sequence of the numbers of S.
Ascending(S) ==
    CHOOSE f \in [1..Cardinality(S) -> S] :
        \A a, b \in 1..Cardinality(S) : a < b => f[a] < f[b]

\* The items the item loop has been through.
Handled ==
    IF run.phase = "rows" THEN 1..(run.pos - 1)
    ELSE IF run.phase = "done" THEN 1..Len(run.parsed.items) ELSE {}

Fingerprint(i) == dedupe_key(run.provider, run.parsed.items[i])

\* The handled items that no earlier item shares its fingerprint with.
FirstOccurrences ==
    {i \in Handled : \A j \in 1..(i - 1) : Fingerprint(j) # Fingerprint(i)}

RowOfItem(i) == item_row(run.provider, run.parsed.items[i], ProductsMapping, run.invoice_num)

\* C1: at every point of the item loop out_rows holds exactly the rows of the
\* first occurrence of each fingerprint among the items handled so far, in the
\* order of the items, and seen holds exactly their fingerprints; so a later
\* item with a fingerprint already seen adds no row and no two rows share one.
C1_FirstOccurrencesInOrder ==
    /\ run.rows.out_rows =
          [n \in 1..Cardinality(FirstOccurrences) |-> RowOfItem(Ascending(FirstOccurrences)[n])]
    /\ run.rows.seen = {Fingerprint(i) : i \in Handled}

\* C1 witness: three items, the third repeating the fingerprint of the first
\* with another spelling; the rows are those of the first and the second.
C1_DuplicateDropped ==
    /\ run.phase = "done"
    /\ Len(run.parsed.items) = 3
    /\ Fingerprint(3) = Fingerprint(1)
    /\ run.parsed.items[3] # run.parsed.items[1]
    /\ Fingerprint(2) # Fingerprint(1)
    /\ run.rows.out_rows = <<RowOfItem(1), RowOfItem(2)>>

\* The fingerprint the specification gives: code, description, quantity and
\* amount, and for SAMS the discount as well.
ClaimedFingerprint(provider, it) ==
    IF provider = "SAMS"
    THEN <<normalize_code(Upper(Strip(Get(it, N_CODIGO_DE_PRODUCTO)))),
           Upper(Strip(Get(it, N_DESCRIPCION_PRODUCTO))),
           DecStr(parse_decimal(Get(it, N_CANTIDAD_PRODUCTO))),
           DecStr(Quantize(parse_decimal(Get(it, N_COSTO_TOTAL_POR_PRODUCTO)), TWOPLACES)),
           DecStr(Quantize(parse_decimal(Get(it, N_DESCUENTO)), TWOPLACES))>>
    ELSE <<normalize_code(Upper(Strip(Get(it, N_product_code)))),
           Upper(Strip(Get(it, N_description))),
           DecStr(parse_decimal(Get(it, N_quantity))),
           DecStr(Quantize(parse_decimal(Get(it, N_amount)), TWOPLACES))>>

\* C2: two items of a document are duplicates exactly when their claimed
\* fingerprints coincide (five values for SAMS, four for CITY): the rows of a
\* finished loop are as many as the distinct claimed fingerprints, and two
\* SAMS items that differ in the discount are both in its fingerprint set.
C2_FingerprintHasDiscount ==
    run.phase = "done" =>
        /\ Len(run.rows.out_rows) =
              Cardinality({ClaimedFingerprint(run.provider, run.parsed.items[i]) :
                              i \in 1..Len(run.parsed.items)})
        /\ \A i, j \in 1..Len(run.parsed.items) :
              Fingerprint(i) = Fingerprint(j) <=>
                  ClaimedFingerprint(run.provider, run.parsed.items[i])
                      = ClaimedFingerprint(run.provider, run.parsed.items[j])

\* The header types of a provider, and the folding of a type name.
HeaderTypes(provider) ==
    IF provider = "SAMS" THEN {N_FECHA_FACTURA, N_NUMERO_FACTURA}
    ELSE {N_invoice_date, N_invoice_id}
Folded(provider, name) == IF provider = "SAMS" THEN Upper(name) ELSE Lower(name)

\* The entities of header type t whose text is not empty.
NonEmptyOfType(t) ==
    {i \in 1..Len(run.entities) :
        /\ Folded(run.provider, run.entities[i].type_) = t
        /\ Strip(run.entities[i].mention_text) # <<>>}

\* C3: once the entities are extracted, the header value of each header type
\* is the text of the first non-empty entity of that type (empty when there is
\* none); later entities of the type do not change it.
C3_FirstNonEmptyWins ==
    run.phase \in {"rows", "done"} =>
        \A t \in HeaderTypes(run.provider) :
            Get(run.parsed.header, t) =
                IF NonEmptyOfType(t) = {} THEN <<>>
                ELSE Strip(run.entities[Ascending(NonEmptyOfType(t))[1]].mention_text)

\* The one item and the one row of a finished run over a one-item document.
OneItemDone ==
    run.phase = "done" /\ Len(run.parsed.items) = 1 /\ Len(run.rows.out_rows) = 1
TheItem == run.parsed.items[1]
TheRow == run.rows.out_rows[1]
Field(name) == parse_decimal(Get(TheItem, name))
TheQty == Field(IF run.provider = "SAMS" THEN N_CANTIDAD_PRODUCTO ELSE N_quantity)

\* C4: a line item of either provider whose quantity is <= 0 (a missing one
\* included) gives a row of unit net cost 0 whose IVA and IEPS labels are both
\* "No Aplicable".
C4_NonPositiveQuantityAllNotApplicable ==
    (OneItemDone /\ NonPositive(TheQty)) =>
        /\ TheRow.unit = "0.00"
        /\ TheRow.iva_label = "No Aplicable"
        /\ TheRow.ieps_label = "No Aplicable"

\* C4 as amended: a line item whose quantity is <= 0 gives a row of unit net
\* cost 0; for SAMS the line net cost is 0 as well and both labels are
\* "No Aplicable"; for CITY the labels follow the amounts whatever the
\* quantity: the IVA label is "No Aplicable" exactly when vat <= 0, the IEPS
\* label exactly when ieps <= 0 or amount <= 0.
C4_NonPositiveQuantityZeroUnit ==
    (OneItemDone /\ NonPositive(TheQty)) =>
        /\ TheRow.unit = "0.00"
        /\ run.provider = "SAMS" =>
              /\ TheRow.line = "0.00"
              /\ TheRow.iva_label = "No Aplicable"
              /\ TheRow.ieps_label = "No Aplicable"
        /\ run.provider = "CITY" =>
              /\ TheRow.iva_label = "No Aplicable" <=> NonPositive(Field(N_vat))
              /\ TheRow.ieps_label = "No Aplicable" <=>
                    (NonPositive(Field(N_ieps_amount)) \/ NonPositive(Field(N_amount)))

\* C4 witnesses: a SAMS item of quantity -1 with taxes, and a CITY item without
\* quantity whose VAT is positive and whose IVA label says so.
C4_NonPositiveQuantitySeen ==
    /\ OneItemDone
    /\ NonPositive(TheQty)
    /\ \/ /\ run.provider = "SAMS"
          /\ TheQty.neg
          /\ percent_from_text(Get(TheItem, N_IVA)) # None
          /\ TheRow.iva_label = "No Aplicable"
       \/ /\ run.provider = "CITY"
          /\ Get(TheItem, N_quantity) = <<>>
          /\ Positive(Field(N_vat))
          /\ TheRow.iva_label # "No Aplicable"

\* The number of cents of a Decimal rounded to two places.
Cents(d) ==
    (IF d.neg THEN -1 ELSE 1) * IntOf(Quantize(d, TWOPLACES).dig)

\* The unit net cost and the quantity of the SAMS item.
TheUnitNet == sams_unit_and_labels(TheItem).unit_net
TheLineNet == sams_unit_and_labels(TheItem).line_net

\* C5: for a SAMS item of quantity > 0 the line net cost of the row is the
\* unit net cost times the quantity, rounded to two places.
C5_LineIsUnitTimesQuantity ==
    (OneItemDone /\ run.provider = "SAMS" /\ Positive(TheQty)) =>
        TheRow.line = fmt_money(DecMul(TheUnitNet, TheQty))

\* The unit net cost is exact: the quotient (gross - discount) / quantity needs
\* no rounding, and neither do its products with (1 + iva) and (1 + ieps).
UnitNetExact ==
    LET net == DecSub(Field(N_COSTO_TOTAL_POR_PRODUCTO), Field(N_DESCUENTO))
        base_unit == DecDiv(net, TheQty)
        iva == rate_or_zero(percent_from_text(Get(TheItem, N_IVA)))
        ieps == rate_or_zero(percent_from_text(Get(TheItem, N_IEPS)))
    IN  /\ IsZero(DecSub(DecMul(base_unit, TheQty), net))
        /\ Len(base_unit.dig) + Len(DecAdd(DecOne, iva).dig)
              + Len(DecAdd(DecOne, ieps).dig) + Len(TheQty.dig) <= Prec

\* C5 as amended: for a SAMS item of quantity > 0 the line net cost of the row
\* equals the unit net cost times the quantity rounded to two places whenever
\* the unit net cost is exact; when the quotient is rounded to 28 digits the
\* two differ by at most one cent.
C5_LineWithinACent ==
    (OneItemDone /\ run.provider = "SAMS" /\ Positive(TheQty)) =>
        /\ UnitNetExact => TheRow.line = fmt_money(DecMul(TheUnitNet, TheQty))
        /\ Cents(DecMul(TheUnitNet, TheQty)) - Cents(TheLineNet) \in {-1, 0, 1}

\* C5 witness: gross 9.915 over quantity 7, where the row says 9.92 and the
\* unit net cost times 7 rounds to 9.91.
C5_RoundedQuotientSeen ==
    /\ OneItemDone /\ run.provider = "SAMS" /\ Positive(TheQty)
    /\ ~UnitNetExact
    /\ TheRow.line = "9.92"
    /\ fmt_money(DecMul(TheUnitNet, TheQty)) = "9.91"

\* n / d rounded half-even to an integer, for naturals n and d > 0.
RoundHalfEven(n, d) ==
    IF 2 * (n % d) > d \/ (2 * (n % d) = d /\ (n \div d) % 2 = 1)
    THEN (n \div d) + 1 ELSE n \div d

Pow10(k) == IF k <= 0 THEN 1 ELSE IntOf(<<1>> \o Zeros(k))

\* The number of zeros a natural n > 0 ends in, and of digits it has.
TrailingZeros(n) == CHOOSE k \in 0..9 : n % Pow10(k) = 0 /\ n % Pow10(k + 1) # 0
NumDigits(n) == CHOOSE k \in 1..10 : Pow10(k - 1) <= n /\ n < Pow10(k)

\* The digits of a natural n, k of them, as text.
Digits(n, k) == DigitStr(Padded(n, k))

\* A whole number n >= 0 as Decimal.normalize() prints it: as it is when it
\* does not end in 0, in scientific notation when it does (20 is 2E+1).
NormalizedWhole(n) ==
    IF n = 0 THEN "0"
    ELSE IF n % 10 # 0 THEN ToString(n)
    ELSE LET z == TrailingZeros(n)
             m == n \div Pow10(z)
             len == NumDigits(m)
         IN  ToString(m \div Pow10(len - 1))
               \o (IF len > 1 THEN "." \o Digits(m % Pow10(len - 1), len - 1) ELSE "")
               \o "E+" \o ToString(z + len - 1)

\* A percentage of t tenths, t >= 0, printed to one decimal and normalised.
TenthsStr(t) ==
    IF t % 10 # 0 THEN ToString(t \div 10) \o "." \o ToString(t % 10)
    ELSE NormalizedWhole(t \div 10)

\* C6: the IVA label of a CITY item is "Aplicable 16%" when its VAT is > 0 and
\* "No Aplicable" otherwise, whatever the amount and the IEPS.
C6_CityIvaIsSixteen ==
    (OneItemDone /\ run.provider = "CITY") =>
        TheRow.iva_label =
            IF Positive(Field(N_vat)) THEN "Aplicable 16%" ELSE "No Aplicable"

\* The base the VAT of the CITY item is taken over, in cents: amount + IEPS
\* when the amount is positive, else 0.
VatBaseCents ==
    IF Positive(Field(N_amount)) THEN Cents(Field(N_amount)) + Cents(Field(N_ieps_amount))
    ELSE 0

\* C6 as amended: the IVA label of a CITY item is "No Aplicable" exactly when
\* its VAT is <= 0; when the VAT is > 0 it is "Aplicable p%" with p the VAT as
\* a percentage of amount + IEPS, rounded half-even to one decimal and printed
\* normalised (p is 0 when the amount is <= 0).
C6_CityIvaIsRatio ==
    (OneItemDone /\ run.provider = "CITY") =>
        TheRow.iva_label =
            IF ~Positive(Field(N_vat)) THEN "No Aplicable"
            ELSE "Aplicable "
                   \o TenthsStr(IF VatBaseCents > 0
                                THEN RoundHalfEven(1000 * Cents(Field(N_vat)), VatBaseCents)
                                ELSE 0)
                   \o "%"

\* C6 witnesses: VAT 10.00 on amount 200.00 (5%), VAT 24.00 on amount 150.00
\* with IEPS 12.00 (14.8%), and VAT 32.00 on amount 200.00 (16%).
C6_RatioSeen ==
    /\ OneItemDone /\ run.provider = "CITY"
    /\ Positive(Field(N_vat))
    /\ Positive(Field(N_ieps_amount))
    /\ TheRow.iva_label = "Aplicable 14.8%"

\* A rate (a Decimal r >= 0) as a percentage scaled by 10^k and rounded
\* half-even: 100 * r * 10^k.
ScaledPercent(r, k) ==
    IF r.exp + 2 + k >= 0 THEN IntOf(r.dig) * Pow10(r.exp + 2 + k)
    ELSE RoundHalfEven(IntOf(r.dig), Pow10(-(r.exp + 2 + k)))

TheIva == percent_from_text(Get(TheItem, N_IVA))
TheIeps == percent_from_text(Get(TheItem, N_IEPS))

ItemsOf(d) == extract(d.provider, d.entities).items
FingerprintIn(d, i) == dedupe_key(d.provider, ItemsOf(d)[i])

\* The items of d that no earlier item shares its fingerprint with.
FirstsOf(d) ==
    {i \in 1..Len(ItemsOf(d)) :
        \A j \in 1..(i - 1) : FingerprintIn(d, j) # FingerprintIn(d, i)}

\* The rows one handling of d appends: those of the first occurrence of each
\* fingerprint, in the order of the items.
RowsOf(d) ==
    IF d.provider = "UNKNOWN" THEN <<>>
    ELSE [n \in 1..Cardinality(FirstsOf(d)) |->
             item_row(d.provider, ItemsOf(d)[Ascending(FirstsOf(d))[n]], ProductsMapping,
                      invoice_num_of(d.provider, extract(d.provider, d.entities).header))]

\* The rows of every document of the model, computed once.
RowsOfDocument == [d \in Documents |-> RowsOf(d)]

\* The deliveries whose append has returned.
Appended ==
    {p \in Deliveries :
        /\ inv[p].pc \in {"copy", "delete", "done"}
        /\ inv[p].out_rows # <<>>
        /\ ~inv[p].unhandled}

\* C8: a delivery that downloaded the document from a bucket other than
\* PROCESSED_BUCKET and then failed (Document AI, the mapping or the append
\* raised) has called move_blob by the time it returns.
C8_ArchiveAfterFailure ==
    \A p \in Deliveries :
        (/\ inv[p].pc = "done"
         /\ inv[p].unhandled
         /\ inv[p].src_bucket_used \notin {"", PROCESSED_BUCKET})
            => inv[p].move_called

\* C9: however often the event is handled, the rows of the document are in the
\* sheet once at most: the sheet is empty or holds the rows of one handling.
C9_RowsAppendedOnce ==
    sheet = <<>> \/ sheet = RowsOfDocument[document]

\* k copies of the sequence rows, one after the other.
Copies(rows, k) ==
    [n \in 1..(k * Len(rows)) |-> rows[((n - 1) % Len(rows)) + 1]]

\* C9 as amended: every handling of the event whose append returns adds the
\* deduplicated rows of the document again, so that the sheet holds as many
\* copies of them as there were such handlings; a delivery that finds the
\* document archived reads it from PROCESSED_BUCKET and appends like the first.
C9_RowsAppendedPerHandling ==
    /\ sheet = Copies(RowsOfDocument[document], Cardinality(Appended))
    /\ \A p \in Deliveries :
          (inv[p].pc = "append" \/ p \in Appended)
              => inv[p].out_rows = RowsOfDocument[document]

\* C9 witness: the first delivery archived the document, the second read it
\* from PROCESSED_BUCKET, and the sheet holds the document's rows twice.
C9_RedeliveryAppendedAgain ==
    /\ RowsOfDocument[document] # <<>>
    /\ sheet = RowsOfDocument[document] \o RowsOfDocument[document]
    /\ blobs = {PROCESSED_BUCKET}
    /\ \E p \in Deliveries :
          inv[p].pc = "done" /\ inv[p].src_bucket_used = PROCESSED_BUCKET
    /\ \E p \in Deliveries :
          inv[p].pc = "done" /\ inv[p].src_bucket_used = INPUT_BUCKET /\ inv[p].move_called

\* C10: the document is in a bucket in every state: it is where it was
\* uploaded until a copy has put it in PROCESSED_BUCKET, where it stays; and
\* move_blob is not called by a delivery that read it from PROCESSED_BUCKET.
C10_DocumentNeverLost ==
    /\ blobs # {}
    /\ PROCESSED_BUCKET \in blobs \/ blobs = {UploadBucket}
    /\ \A p \in Deliveries :
          (inv[p].pc \in {"copy", "delete"} \/ inv[p].move_called)
              => inv[p].src_bucket_used \notin {"", PROCESSED_BUCKET}

\* C10 witness: two overlapping deliveries read the document from the upload
\* bucket; one moved it, the copy of the other failed as the source was gone;
\* the document is in PROCESSED_BUCKET only.
C10_MovedWhileOtherFailed ==
    /\ blobs = {PROCESSED_BUCKET}
    /\ \A p \in Deliveries :
          /\ inv[p].pc = "done"
          /\ inv[p].move_called
          /\ inv[p].src_bucket_used = UploadBucket

=============================================================================
